---- MODULE Spec2Model ----
(***************************************************************************)
(* A model of packages/text-search-engine/src/search.ts: the boundary      *)
(* aware matcher searchByBoundaryMapping, the sentence orchestration       *)
(* searchSentenceByBoundaryMapping, the literal fast path                  *)
(* searchWithIndexof and the entry point searchEntry.                      *)
(*                                                                         *)
(* Strings are sequences of one-letter strings.  Indices into the          *)
(* original string and into the transliteration are the 0-based numbers    *)
(* of the source; At and Slice translate them to TLA+ sequences.           *)
(***************************************************************************)
EXTENDS Integers, Sequences, FiniteSets, TLC

VARIABLES op, src, query, subRange, pc, words, wordIndex, hitRanges, calls, result

vars == <<op, src, query, subRange, pc, words, wordIndex, hitRanges, calls, result>>

-----------------------------------------------------------------------------
(* Bounds of the checked inputs *)

\* searchEntry / searchSentenceByBoundaryMapping: source and query lengths
MaxSrcLen == 3
MaxQueryLen == 3
\* searchByBoundaryMapping called directly: source and query-word lengths
MaxCoreLen == 5
MaxWordLen == 3
\* letters of one reading of a character with two readings
MaxReadLen == 2
\* Latin letters before and after a character with two readings
MaxCtx == 1

-----------------------------------------------------------------------------
(* JavaScript values *)

\* the value of an out-of-range string index (undefined)
UndefinedLetter == "undefined"

\* an unset cell of dpMatchPath (Array(targetLength) leaves holes)
UndefinedCell == <<>>

\* s[i] of a JavaScript string or array, 0-based
At(s, i) == IF i >= 0 /\ i < Len(s) THEN s[i + 1] ELSE UndefinedLetter

Min(a, b) == IF a < b THEN a ELSE b

Max(a, b) == IF a > b THEN a ELSE b

\* s.slice(from, to) for 0 <= from
Slice(s, from, to) == SubSeq(s, from + 1, Min(to, Len(s)))

\* the results a search function can produce
Undefined == [kind |-> "undefined", ranges |-> <<>>]

Zero == [kind |-> "zero", ranges |-> <<>>]

Thrown == [kind |-> "throw", ranges |-> <<>>]

MatrixOf(rs) == [kind |-> "matrix", ranges |-> rs]

Truthy(r) == r.kind = "matrix"

IsWhitespace(c) == c = " "

RECURSIVE TrimStart(_)
TrimStart(s) == IF s # <<>> /\ IsWhitespace(Head(s)) THEN TrimStart(Tail(s)) ELSE s

RECURSIVE TrimEnd(_)
TrimEnd(s) ==
    IF s # <<>> /\ IsWhitespace(s[Len(s)]) THEN TrimEnd(SubSeq(s, 1, Len(s) - 1)) ELSE s

\* String.prototype.trim
Trim(s) == TrimEnd(TrimStart(s))

\* s.split(/\s+/): "" splits into one empty word
RECURSIVE SplitWords(_, _, _)
SplitWords(s, word, inGap) ==
    IF s = <<>> THEN <<word>>
    ELSE IF IsWhitespace(Head(s))
         THEN IF inGap THEN SplitWords(Tail(s), word, TRUE)
              ELSE <<word>> \o SplitWords(Tail(s), <<>>, TRUE)
         ELSE SplitWords(Tail(s), Append(word, Head(s)), FALSE)

Split(s) == SplitWords(s, <<>>, FALSE)

\* String.prototype.indexOf: the smallest index where t occurs in s, or -1
Occurs(s, t, i) == i + Len(t) <= Len(s) /\ SubSeq(s, i + 1, i + Len(t)) = t

IndexOf(s, t) ==
    IF \E i \in 0..Len(s) : Occurs(s, t, i)
    THEN CHOOSE i \in 0..Len(s) : Occurs(s, t, i) /\ \A j \in 0..(i - 1) : ~Occurs(s, t, j)
    ELSE -1

-----------------------------------------------------------------------------
(* SourceMappingData.  A source character is [ch, units]: the character    *)
(* and the spellings that enter pinyinString for it (a Latin letter has    *)
(* the one unit <<letter>>).                                               *)

Latin(c) == [ch |-> c, units |-> << <<c>> >>]

RECURSIVE Repeat(_, _)
Repeat(x, n) == IF n = 0 THEN <<>> ELSE <<x>> \o Repeat(x, n - 1)

RECURSIVE Flatten(_)
Flatten(ss) == IF ss = <<>> THEN <<>> ELSE Head(ss) \o Flatten(Tail(ss))

\* the boundary entries of one character's units, the first starting at offset acc
RECURSIVE UnitBoundary(_, _, _)
UnitBoundary(units, i, acc) ==
    IF units = <<>> THEN <<>>
    ELSE Repeat(<<i, acc>>, Len(Head(units)))
         \o UnitBoundary(Tail(units), i, acc + Len(Head(units)))

RECURSIVE BuildFrom(_, _, _, _)
BuildFrom(chars, i, acc, d) ==
    IF i >= Len(chars) THEN [d EXCEPT !.originalIndices = Append(@, acc)]
    ELSE LET units == chars[i + 1].units
             letters == Flatten(units)
         IN BuildFrom(chars, i + 1, acc + Len(letters),
                [d EXCEPT !.pinyinString = @ \o letters,
                          !.boundary = @ \o UnitBoundary(units, i, acc),
                          !.originalIndices = Append(@, acc)])

extractBoundaryMappingWithPresetPinyin(chars) ==
    BuildFrom(chars, 0, 0,
        [originalString |-> [k \in 1..Len(chars) |-> chars[k].ch],
         originalLength |-> Len(chars),
         pinyinString |-> <<>>,
         boundary |-> << <<-1, -1>> >>,
         originalIndices |-> <<>>])

-----------------------------------------------------------------------------
(* searchByBoundaryMapping *)

defaultDpTableValue == <<0, 0, -1, -1>>

\* boundary[k] exists (reading [0] or [1] of a missing entry throws)
HasBoundary(c, k) == k >= 0 /\ k < Len(c.boundary)

BoundaryAt(c, k) == c.boundary[k + 1]

\* lines 23-30: the greedy pre-scan that fills matchPositions (-1 where a
\* letter found no position)
RECURSIVE GreedyScan(_, _, _, _, _)
GreedyScan(pinyinString, target, i, matchIndex, matchPositions) ==
    IF ~(i < Len(pinyinString) /\ matchIndex < Len(target))
    THEN [matchIndex |-> matchIndex, matchPositions |-> matchPositions]
    ELSE IF At(pinyinString, i) = At(target, matchIndex)
         THEN GreedyScan(pinyinString, target, i + 1, matchIndex + 1,
                         [matchPositions EXCEPT ![matchIndex + 1] = i])
         ELSE GreedyScan(pinyinString, target, i + 1, matchIndex, matchPositions)

\* lines 72-74
isNewWord(c, m, prevBoundaryStart) ==
    /\ m - 1 = BoundaryAt(c, m)[2] - c.endBoundary
    /\ prevBoundaryStart # BoundaryAt(c, m)[1] - c.startBoundary

\* isContinuation without the guard on the reading (prevBoundaryEnd)
isContinuationAnyReading(c, m, matchIndex, prevMatchedStrings, prevBoundaryEnd) ==
    /\ prevMatchedStrings > 0
    /\ At(c.pinyinString, m - 2) = At(c.target, matchIndex - 1)

\* lines 78-83
isContinuation(c, m, matchIndex, prevMatchedStrings, prevBoundaryEnd) ==
    /\ prevMatchedStrings > 0
    /\ prevBoundaryEnd = BoundaryAt(c, m)[2] - c.endBoundary
    /\ At(c.pinyinString, m - 2) = At(c.target, matchIndex - 1)

\* line 84
isEqual(c, m, matchIndex) == At(c.pinyinString, m - 1) = At(c.target, matchIndex)

\* a score that grows by one per letter, whatever the length of the run
LinearScore(prevScore, prevMatchedLetters) == prevScore + 1

\* line 88: the score of an accepted extension
ExtendedScore(prevScore, prevMatchedLetters) == prevScore + prevMatchedLetters * 2 + 1

\* line 92: an accepted extension is recorded only if it is not worse
KeepsScore(newScore, recordedScore) == newScore >= recordedScore

\* a path cell replaced on a tie as well
NewMatchedOnTie(newScore, recordedScore) == newScore >= recordedScore

\* line 105: only a strictly better score replaces the path cell
NewMatched(newScore, recordedScore) == newScore > recordedScore

\* line 108: the path cell of a newly matched run
PathCell(originalStringIndex, prevMatchedStrings, newWord, matchedLettersCount) ==
    <<originalStringIndex - prevMatchedStrings + (IF newWord THEN 0 ELSE 1),
      originalStringIndex, matchedLettersCount>>

\* CarriedTableItem without the isWithInRange guard before boundary[m + 1]
CarriedTableItemUnguarded(c, st, m) ==
    LET gap == BoundaryAt(c, m)[1] - c.startBoundary - st.dpTable[m - 1][3]
    IN IF gap = 0 THEN [threw |-> FALSE, item |-> st.dpTable[m - 1]]
       ELSE IF gap = 1
            THEN IF ~HasBoundary(c, m + 1) THEN [threw |-> TRUE, item |-> defaultDpTableValue]
                 ELSE IF BoundaryAt(c, m)[1] = BoundaryAt(c, m + 1)[1]
                      THEN [threw |-> FALSE, item |-> st.dpTable[m - 1]]
                      ELSE [threw |-> FALSE, item |-> defaultDpTableValue]
            ELSE [threw |-> FALSE, item |-> defaultDpTableValue]

\* lines 118-125: the table cell where no extension is accepted
CarriedTableItem(c, st, m) ==
    LET gap == BoundaryAt(c, m)[1] - c.startBoundary - st.dpTable[m - 1][3]
        isWithInRange == m < c.pinyinLength - 1
    IN IF gap = 0 THEN [threw |-> FALSE, item |-> st.dpTable[m - 1]]
       ELSE IF isWithInRange /\ gap = 1
            THEN IF ~HasBoundary(c, m + 1) THEN [threw |-> TRUE, item |-> defaultDpTableValue]
                 ELSE IF BoundaryAt(c, m)[1] = BoundaryAt(c, m + 1)[1]
                      THEN [threw |-> FALSE, item |-> st.dpTable[m - 1]]
                      ELSE [threw |-> FALSE, item |-> defaultDpTableValue]
            ELSE [threw |-> FALSE, item |-> defaultDpTableValue]

\* lines 60-125: one iteration of the inner loop at matchedPinyinIndex = m
InnerStep(c, st, matchIndex, m) ==
    IF ~HasBoundary(c, m) THEN [st EXCEPT !.threw = TRUE]
    ELSE
    LET prevScore == st.currentScore
        prevMatchedStrings == st.currentDpTableItem[1]
        prevMatchedLetters == st.currentDpTableItem[2]
        prevBoundaryStart == st.currentDpTableItem[3]
        prevBoundaryEnd == st.currentDpTableItem[4]
        newWord == isNewWord(c, m, prevBoundaryStart)
        continuation == isContinuation(c, m, matchIndex, prevMatchedStrings, prevBoundaryEnd)
        newScore == ExtendedScore(prevScore, prevMatchedLetters)
        matchedLettersCount == prevMatchedLetters + 1
        originalStringIndex == BoundaryAt(c, m)[1] - c.startBoundary
        accepted == /\ isEqual(c, m, matchIndex)
                    /\ (newWord \/ continuation)
                    /\ (matchIndex = 0 \/ prevScore > 0)
                    /\ KeepsScore(newScore, st.dpScores[m - 1])
        carried == CarriedTableItem(c, st, m)
        next == [st EXCEPT !.currentDpTableItem = st.dpTable[m],
                           !.currentScore = st.dpScores[m],
                           !.cells = @ + 1]
    IN IF accepted
       THEN [next EXCEPT
                !.dpScores[m] = newScore,
                !.dpTable[m] = <<prevMatchedStrings + (IF newWord THEN 1 ELSE 0),
                                 matchedLettersCount,
                                 BoundaryAt(c, m)[1] - c.startBoundary,
                                 BoundaryAt(c, m)[2] - c.endBoundary>>,
                !.dpMatchPath[m][matchIndex] =
                    IF NewMatched(newScore, st.dpScores[m - 1])
                    THEN PathCell(originalStringIndex, prevMatchedStrings, newWord,
                                  matchedLettersCount)
                    ELSE st.dpMatchPath[m - 1][matchIndex]]
       ELSE [next EXCEPT
                !.dpScores[m] = st.dpScores[m - 1],
                !.dpMatchPath[m][matchIndex] = st.dpMatchPath[m - 1][matchIndex],
                !.dpTable[m] = carried.item,
                !.threw = carried.threw]

\* line 59: the inner loop from m to pinyinLength
RECURSIVE InnerLoop(_, _, _, _)
InnerLoop(c, st, matchIndex, m) ==
    IF m > c.pinyinLength \/ st.threw THEN st
    ELSE InnerLoop(c, InnerStep(c, st, matchIndex, m), matchIndex, m + 1)

\* lines 44-127: the outer loop over the query letters, from matchIndex on
RECURSIVE OuterLoop(_, _, _, _)
OuterLoop(c, st, matchPositions, matchIndex) ==
    IF matchIndex >= Len(matchPositions) \/ st.threw THEN st
    ELSE LET m == matchPositions[matchIndex + 1] + 1
             consumed == [st EXCEPT !.currentDpTableItem = st.dpTable[m - 1],
                                    !.currentScore = st.dpScores[m - 1],
                                    !.dpScores[m - 1] = 0,
                                    !.dpTable[m - 1] = defaultDpTableValue]
         IN OuterLoop(c, InnerLoop(c, consumed, matchIndex, m), matchPositions,
                      matchIndex + 1)

\* lines 131-136: read the ranges back from the last row of dpMatchPath
RECURSIVE Backtrack(_, _, _, _)
Backtrack(row, i, startIndex, hitIndices) ==
    IF i < 0 THEN MatrixOf(hitIndices)
    ELSE IF row[i] = UndefinedCell THEN Thrown
         ELSE Backtrack(row, i - row[i][3], startIndex,
                        <<<<row[i][1] + startIndex, row[i][2] + startIndex>>>> \o hitIndices)

\* a call's outcome: the value returned (or Thrown), the anchors the pre-scan
\* found and the number of DP cells computed
Outcome(value, anchors, cells) == [value |-> value, anchors |-> anchors, cells |-> cells]

searchByBoundaryMapping(data, target, startIndex, endIndex) ==
    LET from == data.originalIndices[startIndex + 1]
        to == data.originalIndices[endIndex + 1]
        pinyinString == Slice(data.pinyinString, from, to)
        boundary == Slice(data.boundary, from, to + 1)
        targetLength == Len(target)
        pinyinLength == Len(pinyinString)
    IN IF targetLength = 0 \/ pinyinLength < targetLength \/ data.originalLength = 0
       THEN Outcome(Undefined, 0, 0)
       ELSE IF Len(boundary) < 2 THEN Outcome(Thrown, 0, 0)
       ELSE
       LET scan == GreedyScan(pinyinString, target, 0, 0, [k \in 1..targetLength |-> -1])
           c == [pinyinString |-> pinyinString, boundary |-> boundary, target |-> target,
                 pinyinLength |-> pinyinLength, targetLength |-> targetLength,
                 startBoundary |-> boundary[2][1], endBoundary |-> boundary[2][2]]
           st0 == [dpTable |-> [k \in 0..pinyinLength |-> defaultDpTableValue],
                   dpScores |-> [k \in 0..pinyinLength |-> 0],
                   dpMatchPath |-> [k \in 0..pinyinLength |->
                                       [q \in 0..(targetLength - 1) |-> UndefinedCell]],
                   currentDpTableItem |-> defaultDpTableValue,
                   currentScore |-> 0,
                   cells |-> 0,
                   threw |-> FALSE]
       IN IF scan.matchIndex < targetLength THEN Outcome(Undefined, scan.matchIndex, 0)
          ELSE LET st == OuterLoop(c, st0, scan.matchPositions, 0)
               IN IF st.threw THEN Outcome(Thrown, scan.matchIndex, st.cells)
                  ELSE IF st.dpMatchPath[pinyinLength][targetLength - 1] = UndefinedCell
                       THEN Outcome(Undefined, scan.matchIndex, st.cells)
                       ELSE Outcome(Backtrack(st.dpMatchPath[pinyinLength], targetLength - 1,
                                              startIndex, <<>>),
                                    scan.matchIndex, st.cells)

\* the record kept of one searchByBoundaryMapping call
CallRecord(data, target, startIndex, endIndex) ==
    LET out == searchByBoundaryMapping(data, target, startIndex, endIndex)
    IN [target |-> target, startIndex |-> startIndex, endIndex |-> endIndex,
        value |-> out.value, anchors |-> out.anchors, cells |-> out.cells]

-----------------------------------------------------------------------------
(* getRestRanges, searchWithIndexof *)

\* the original-character indices an inclusive range list covers
Covered(ranges) == UNION {ranges[k][1]..ranges[k][2] : k \in 1..Len(ranges)}

\* the maximal runs of unclaimed indices from i on, each as [start, end) where
\* end is the index searchByBoundaryMapping slices up to
RECURSIVE RestFrom(_, _, _)
RestFrom(length, covered, i) ==
    IF i >= length THEN <<>>
    ELSE IF i \in covered THEN RestFrom(length, covered, i + 1)
         ELSE LET stop == CHOOSE j \in (i + 1)..length :
                              /\ \A k \in i..(j - 1) : k \notin covered
                              /\ (j = length \/ j \in covered)
              IN <<<<i, stop>>>> \o RestFrom(length, covered, stop)

getRestRanges(length, ranges) == RestFrom(length, Covered(ranges), 0)

\* lines 166-169
searchWithIndexof(source, target) ==
    LET startIndex == IndexOf(source, Trim(target))
    IN IF startIndex = -1 THEN Zero
       ELSE MatrixOf(<<<<startIndex, startIndex + Len(target) - 1>>>>)

\* lines 152-159: try the rest ranges in order until one places the word
RECURSIVE ScanRanges(_, _, _, _, _)
ScanRanges(data, word, restRanges, k, made) ==
    IF k > Len(restRanges) THEN made
    ELSE LET call == CallRecord(data, word, restRanges[k][1], restRanges[k][2])
         IN IF call.value.kind \in {"matrix", "throw"} THEN Append(made, call)
            ELSE ScanRanges(data, word, restRanges, k + 1, Append(made, call))

-----------------------------------------------------------------------------
(* The inputs *)

SeqsOf(A, lo, hi) == UNION {[1..k -> A] : k \in lo..hi}

Identity(letters) == [k \in 1..Len(letters) |-> Latin(letters[k])]

\* a character with the readings r1 and r2; own says whether the character
\* itself enters pinyinString before its readings ("x你" => "x你ni")
TwoReadings(name, r1, r2, own) ==
    [ch |-> name, units |-> (IF own THEN << <<name>> >> ELSE <<>>) \o <<r1, r2>>]

De(own) == TwoReadings("De", <<"d", "e">>, <<"d", "i">>, own)

SearchChars == {Latin("a"), Latin("b"), Latin(" "),
                TwoReadings("X", <<"a", "b">>, <<"a", "a">>, TRUE)}

Tetmplpimpo == Identity(<<"t", "e", "t", "m", "p", "l", "p", "i", "m", "p", "o">>)

NoNode == Identity(<<"n", "o", "_", "n", "o", "d", "e">>)

NoNo == Identity(<<"n", "o", "_", "n", "o">>)

\* inputs of searchEntry and searchSentenceByBoundaryMapping: every short
\* source and query, the demo of lines 175-180, and two two-word queries
SearchInput ==
    \/ /\ src \in SeqsOf(SearchChars, 0, MaxSrcLen)
       /\ query \in SeqsOf({"a", "b", " "}, 0, MaxQueryLen)
    \/ /\ src = Tetmplpimpo
       /\ query = <<"e", "m", "p">>
    \/ /\ src = Identity(<<"a", "_", "b", "a", "b">>)
       /\ query = <<"a", "b", "b", " ", "a">>
    \/ /\ src = Identity(<<"a", "_", "b", "c", "a", "b", "d">>)
       /\ query = <<"a", "b", " ", "c", "d">>

CoreWords == SeqsOf({"a", "b"}, 0, MaxWordLen)

\* identity-transliterated sources over every sub-range
IdentityInput ==
    /\ \E s \in SeqsOf({"a", "b", "_"}, 0, MaxCoreLen) : src = Identity(s)
    /\ query \in CoreWords
    /\ \E a \in 0..Len(src), e \in 0..Len(src) : a <= e /\ subRange = <<a, e>>

Readings == SeqsOf({"a", "b"}, 1, MaxReadLen)

\* one character with two distinct readings
TwoReadingInput ==
    /\ \E r1 \in Readings, r2 \in Readings, own \in BOOLEAN :
          r1 # r2 /\ src = <<TwoReadings("X", r1, r2, own)>>
    /\ query \in CoreWords \ {<<>>}
    /\ subRange = <<0, 1>>

\* the character "dedi" among Latin letters, over every sub-range
DeInput ==
    /\ \E pre \in SeqsOf({"d", "e"}, 0, MaxCtx), suf \in SeqsOf({"d", "e"}, 0, MaxCtx),
          own \in BOOLEAN :
          src = Identity(pre) \o <<De(own)>> \o Identity(suf)
    /\ query \in SeqsOf({"d", "e", "i"}, 1, MaxWordLen)
    /\ \E a \in 0..Len(src), e \in 0..Len(src) : a < e /\ subRange = <<a, e>>

ScenarioInput ==
    \/ src = NoNode /\ query = <<"n", "o", "d">> /\ subRange = <<0, 7>>
    \/ src = NoNo /\ query = <<"n", "o">> /\ subRange = <<0, 5>>

-----------------------------------------------------------------------------
(* The state machine *)

Pending == [kind |-> "pending", ranges |-> <<>>]

originalString(chars) == [k \in 1..Len(chars) |-> chars[k].ch]

Init ==
    /\ op \in {"searchEntry", "searchSentenceByBoundaryMapping"}
    /\ SearchInput
    /\ subRange = <<0, Len(src)>>
    /\ pc = "call"
    /\ words = <<>>
    /\ wordIndex = 0
    /\ hitRanges = <<>>
    /\ calls = <<>>
    /\ result = Pending

CoreInit ==
    /\ op = "searchByBoundaryMapping"
    /\ IdentityInput \/ TwoReadingInput \/ DeInput \/ ScenarioInput
    /\ pc = "call"
    /\ words = <<>>
    /\ wordIndex = 0
    /\ hitRanges = <<>>
    /\ calls = <<>>
    /\ result = Pending

Return(r) == result' = r /\ pc' = "done"

\* lines 171-173: the literal fast path, else the sentence search
SearchEntry ==
    /\ pc = "call" /\ op = "searchEntry"
    /\ LET hit == searchWithIndexof(originalString(src), query)
       IN IF Truthy(hit) THEN Return(hit)
          ELSE pc' = "sentence" /\ result' = result
    /\ UNCHANGED <<op, src, query, subRange, words, wordIndex, hitRanges, calls>>

\* lines 141-147: the guards of searchSentenceByBoundaryMapping and the split
SearchSentence ==
    /\ \/ pc = "call" /\ op = "searchSentenceByBoundaryMapping"
       \/ pc = "sentence"
    /\ LET hitRangesByIndexOf == searchWithIndexof(originalString(src), query)
       IN IF query = <<>> THEN Return(Undefined) /\ words' = words
          ELSE IF Truthy(hitRangesByIndexOf)
               THEN Return(hitRangesByIndexOf) /\ words' = words
               ELSE /\ words' = Split(Trim(query))
                    /\ pc' = "words"
                    /\ result' = result
    /\ UNCHANGED <<op, src, query, subRange, wordIndex, hitRanges, calls>>

\* lines 148-163: one iteration of the loop over the words, and the return
\* after the last one
PlaceWord ==
    /\ pc = "words" /\ wordIndex < Len(words)
    /\ LET data == extractBoundaryMappingWithPresetPinyin(src)
           restRanges == getRestRanges(data.originalLength, hitRanges)
           made == ScanRanges(data, words[wordIndex + 1], restRanges, 1, <<>>)
           last == made[Len(made)]
       IN IF restRanges = <<>>
          THEN Return(Undefined) /\ UNCHANGED <<wordIndex, hitRanges>> /\ calls' = <<>>
          ELSE /\ calls' = made
               /\ IF last.value.kind = "throw"
                  THEN Return(Thrown) /\ UNCHANGED <<wordIndex, hitRanges>>
                  ELSE IF last.value.kind # "matrix"
                       THEN Return(Undefined) /\ UNCHANGED <<wordIndex, hitRanges>>
                       ELSE /\ hitRanges' = hitRanges \o last.value.ranges
                            /\ wordIndex' = wordIndex + 1
                            /\ IF wordIndex + 1 = Len(words)
                               THEN Return(MatrixOf(hitRanges'))
                               ELSE pc' = pc /\ result' = result
    /\ UNCHANGED <<op, src, query, subRange, words>>

\* a direct call of searchByBoundaryMapping over subRange
SearchCore ==
    /\ pc = "call" /\ op = "searchByBoundaryMapping"
    /\ LET call == CallRecord(extractBoundaryMappingWithPresetPinyin(src), query,
                              subRange[1], subRange[2])
       IN calls' = <<call>> /\ Return(call.value)
    /\ UNCHANGED <<op, src, query, subRange, words, wordIndex, hitRanges>>

Next == SearchEntry \/ SearchSentence \/ PlaceWord

CoreNext == SearchCore

Spec == Init /\ [][Next]_vars

CoreSpec == CoreInit /\ [][CoreNext]_vars

\* the three functions together
AllInit == Init \/ CoreInit

AllNext == Next \/ CoreNext

AllSpec == AllInit /\ [][AllNext]_vars

-----------------------------------------------------------------------------
(* Vocabulary of the properties *)

Done == pc = "done"

IsIdentity(chars) == \A k \in 1..Len(chars) : chars[k] = Latin(chars[k].ch)

HasTwoReadings(ch) == Len(ch.units) >= 2

\* ranges are well formed, left to right and pairwise disjoint
Ordered(rs) ==
    /\ \A k \in 1..Len(rs) : rs[k][1] <= rs[k][2]
    /\ \A k \in 1..(Len(rs) - 1) : rs[k][2] < rs[k + 1][1]

\* no original-character index lies in two of the ranges
PairwiseDisjoint(rs) ==
    \A j, k \in 1..Len(rs) : j < k => (rs[j][1]..rs[j][2]) \cap (rs[k][1]..rs[k][2]) = {}

Inside(rs, startIndex, endIndex) ==
    \A k \in 1..Len(rs) : startIndex <= rs[k][1] /\ rs[k][2] <= endIndex

RECURSIVE IsSubsequence(_, _)
IsSubsequence(q, s) ==
    IF q = <<>> THEN TRUE
    ELSE IF s = <<>> THEN FALSE
         ELSE IF Head(q) = Head(s) THEN IsSubsequence(Tail(q), Tail(s))
              ELSE IsSubsequence(q, Tail(s))

FromOneReading(q, ch) == \E u \in 1..Len(ch.units) : IsSubsequence(q, ch.units[u])

\* q splits into consecutive non-empty pieces, one per character of chs in
\* order, each piece read from a single reading of its character
RECURSIVE ReadsFrom(_, _)
ReadsFrom(q, chs) ==
    IF chs = <<>> THEN q = <<>>
    ELSE \E k \in 1..Len(q) :
            /\ FromOneReading(SubSeq(q, 1, k), Head(chs))
            /\ ReadsFrom(SubSeq(q, k + 1, Len(q)), Tail(chs))

\* the characters of the source the ranges cover, range by range
RECURSIVE CharsOf(_, _)
CharsOf(chars, rs) ==
    IF rs = <<>> THEN <<>>
    ELSE SubSeq(chars, Head(rs)[1] + 1, Head(rs)[2] + 1) \o CharsOf(chars, Tail(rs))

NonWhitespace(q) == SelectSeq(q, LAMBDA c : ~IsWhitespace(c))

IsWord(q) == q # <<>> /\ \A k \in 1..Len(q) : ~IsWhitespace(q[k])

CoreDone == Done /\ op = "searchByBoundaryMapping"

SearchDone == Done /\ op \in {"searchEntry", "searchSentenceByBoundaryMapping"}

EntryDone == Done /\ op = "searchEntry"

MultiWord == Len(Split(Trim(query))) >= 2

-----------------------------------------------------------------------------
(* Properties *)

\* C1: searchEntry(S, W) for a non-empty W that occurs in S returns the single
\* range [i, i + |W| - 1] at the smallest index i where W occurs, also when W
\* starts or ends with whitespace.
C1_LiteralLeftmost ==
    (EntryDone /\ query # <<>> /\ IndexOf(originalString(src), query) # -1)
    => LET i == IndexOf(originalString(src), query)
       IN result = MatrixOf(<<<<i, i + Len(query) - 1>>>>)

\* C2: a Matrix returned by searchByBoundaryMapping for a non-empty
\* whitespace-free word has ranges with s_k <= e_k and e_k < s_(k+1), all inside
\* the requested sub-range, from whose characters the word is read in order.
C2_RangesOrderedDisjoint ==
    (CoreDone /\ IsWord(query) /\ Truthy(result))
    => /\ Ordered(result.ranges)
       /\ Inside(result.ranges, subRange[1], subRange[2])
       /\ ReadsFrom(query, CharsOf(src, result.ranges))

\* C3: when the letters of Q are not a subsequence of the transliteration of S,
\* searchEntry returns no-match; and a searchByBoundaryMapping call whose
\* pre-scan finds no anchor for some letter returns no-match with no DP cell
\* computed.
C3_NotSubsequenceNoMatch ==
    /\ (EntryDone /\ ~IsSubsequence(NonWhitespace(query),
                        extractBoundaryMappingWithPresetPinyin(src).pinyinString))
       => ~Truthy(result)
    /\ \A k \in 1..Len(calls) :
          calls[k].anchors < Len(calls[k].target)
          => calls[k].value = Undefined /\ calls[k].cells = 0

\* C4: an empty or whitespace-only query, or an empty source, gives no-match
\* from searchEntry and from searchSentenceByBoundaryMapping.
C4_BlankIsNoMatch ==
    (SearchDone /\ (Trim(query) = <<>> \/ src = <<>>)) => ~Truthy(result)

\* the last original-character index the ranges reach
RECURSIVE MaxEnd(_)
MaxEnd(rs) == IF rs = <<>> THEN -1 ELSE Max(Head(rs)[2], MaxEnd(Tail(rs)))

\* the words from the k-th on can each be placed by searchByBoundaryMapping on
\* some sub-range, every word to the right of the one before it
RECURSIVE ExistsPlacement(_, _, _, _)
ExistsPlacement(data, ws, k, from) ==
    IF k > Len(ws) THEN TRUE
    ELSE \E a \in from..(data.originalLength - 1) :
            \E e \in (a + 1)..data.originalLength :
                LET v == searchByBoundaryMapping(data, ws[k], a, e).value
                IN /\ Truthy(v)
                   /\ Inside(v.ranges, a, e - 1)
                   /\ ExistsPlacement(data, ws, k + 1, MaxEnd(v.ranges) + 1)

\* C5: for a query of two or more words that does not occur literally,
\* searchSentenceByBoundaryMapping returns a Matrix if and only if every word
\* has a placement, the placements pairwise disjoint and in the order of the
\* words.
C5_MatrixIffOrderedPlacement ==
    (SearchDone /\ MultiWord /\ IndexOf(originalString(src), Trim(query)) = -1)
    => (Truthy(result)
        <=> ExistsPlacement(extractBoundaryMappingWithPresetPinyin(src),
                            Split(Trim(query)), 1, 0))

\* C6: for a multi-word query the ranges accumulated in hitRanges are pairwise
\* disjoint after each word is placed, so no original-character index is
\* covered twice in the Matrix returned.
C6_HitRangesDisjoint ==
    (op # "searchByBoundaryMapping" /\ Len(words) >= 2) => PairwiseDisjoint(hitRanges)

\* C7: searchEntry, searchSentenceByBoundaryMapping and every
\* searchByBoundaryMapping call (made by them or directly) end with a Matrix
\* or no-match and never throw (no undefined dpMatchPath cell and no missing
\* boundary entry is read).
C7_NeverThrows ==
    /\ \A k \in 1..Len(calls) : calls[k].value.kind \in {"matrix", "undefined"}
    /\ result.kind # "throw"
    /\ Done => result.kind \in {"matrix", "undefined"}

\* a sentence search whose last call backtracked over a run of several letters
\* of a character with two readings
C7_Witness ==
    /\ SearchDone /\ Truthy(result)
    /\ \E k \in 1..Len(src) : HasTwoReadings(src[k])
    /\ \E k \in 1..Len(calls) :
          /\ calls[k].cells > 0
          /\ Truthy(calls[k].value)
          /\ Len(calls[k].value.ranges) < Len(calls[k].target)

\* C8: on an identity-transliterated source that contains the word as a
\* contiguous substring, searchByBoundaryMapping over the full range returns
\* the one range [i, i + n - 1] of the leftmost contiguous occurrence;
\* "no_node" with "nod" gives [[3,5]] and "no_no" with "no" gives [[0,1]].
C8_ContiguousOccurrence ==
    /\ (CoreDone /\ IsIdentity(src) /\ query # <<>> /\ subRange = <<0, Len(src)>>
          /\ IndexOf(originalString(src), query) # -1)
       => LET i == IndexOf(originalString(src), query)
          IN result = MatrixOf(<<<<i, i + Len(query) - 1>>>>)
    /\ (CoreDone /\ src = NoNode /\ query = <<"n", "o", "d">>)
       => result = MatrixOf(<<<<3, 5>>>>)
    /\ (CoreDone /\ src = NoNo /\ query = <<"n", "o">>)
       => result = MatrixOf(<<<<0, 1>>>>)

\* "no_node" searched for "nod": the fragmented "no" + "d" alignment starts
\* earlier than the contiguous one that is returned
C8_Witness ==
    CoreDone /\ src = NoNode /\ query = <<"n", "o", "d">> /\ result = MatrixOf(<<<<3, 5>>>>)

\* C9 as stated: "tetmplpimpo" searched for "emp" gives a single range of
\* three consecutive characters that spell "emp".
C9_ContiguousEmp ==
    (SearchDone /\ src = Tetmplpimpo /\ query = <<"e", "m", "p">>)
    => /\ Truthy(result)
       /\ Len(result.ranges) = 1
       /\ result.ranges[1][2] = result.ranges[1][1] + 2
       /\ SubSeq(originalString(src), result.ranges[1][1] + 1, result.ranges[1][2] + 1)
             = <<"e", "m", "p">>

\* C9 as amended: "tetmplpimpo" holds no contiguous "emp"; the search returns
\* the two ranges [1,1] ("e") and [3,4] (the first contiguous "mp").
C9_EmpFragments ==
    (SearchDone /\ src = Tetmplpimpo /\ query = <<"e", "m", "p">>)
    => result = MatrixOf(<<<<1, 1>>, <<3, 4>>>>)

C9_Witness ==
    /\ Done /\ op = "searchSentenceByBoundaryMapping"
    /\ src = Tetmplpimpo /\ query = <<"e", "m", "p">> /\ Truthy(result)

\* C10: when the source holds a character with two readings, the word of every
\* Matrix returned by searchByBoundaryMapping is read from the covered
\* characters with a single reading per character; against the one character
\* "dedi" the words "dd" and "dei" give no-match and "de" and "di" match it.
C10_SingleReading ==
    /\ (CoreDone /\ Truthy(result) /\ \E k \in 1..Len(src) : HasTwoReadings(src[k]))
       => ReadsFrom(query, CharsOf(src, result.ranges))
    /\ (CoreDone /\ src \in {<<De(TRUE)>>, <<De(FALSE)>>})
       => /\ query \in {<<"d", "d">>, <<"d", "e", "i">>} => result = Undefined
          /\ query \in {<<"d", "e">>, <<"d", "i">>} => result = MatrixOf(<<<<0, 0>>>>)

\* "di" matched against "dedi": the second reading is taken after the first
\* one matched its "d"
C10_Witness ==
    /\ CoreDone /\ src = <<De(TRUE)>> /\ query = <<"d", "i">>
    /\ result = MatrixOf(<<<<0, 0>>>>)

====
